---- MODULE Spec2Model ----
(***************************************************************************)
(* RFM engine of Retail-Customer-Intelligence (src/rfm_analysis.py).       *)
(*                                                                         *)
(* A ledger (a DataFrame of transactions) is handed to RFMAnalyzer; the    *)
(* analyzer copies it, converts the date column, and the pipeline of       *)
(* main.perform_rfm_analysis calls calculate_rfm, assign_rfm_scores and    *)
(* segment_customers on it.  rfm_data is the one DataFrame object that     *)
(* these methods receive, change in place and return.  The reporting       *)
(* methods calculate_customer_value, get_segment_summary and               *)
(* identify_top_customers follow, as in main.run_complete_analysis.        *)
(*                                                                         *)
(* Numbers: dates are day numbers, a timestamp is a number of ticks        *)
(* (TicksPerDay ticks a day, a date converts to its midnight tick),        *)
(* amounts and monetary sums are integers (the ledger's smallest currency  *)
(* unit).  pandas.cut's bin edges are rationals; they are kept exact by    *)
(* scaling every edge and every value by EdgeScale.  Averages, CLV and     *)
(* percentages are exact fractions; a float that is not a number is nan.   *)
(***************************************************************************)
EXTENDS Integers, Sequences, FiniteSets, TLC

VARIABLES ledger, analysis_date, df, rfm_data, pc, err,
          segment_summary, top_customers, contribution_pct, percentile,
          arg_frame, tie_break, previous,
          data, csv_file, held, choice, outcome

vars == <<ledger, analysis_date, df, rfm_data, pc, err,
          segment_summary, top_customers, contribution_pct, percentile,
          arg_frame, tie_break, previous,
          data, csv_file, held, choice, outcome>>

\* the state of the interactive menu of main: the local data, the file
\* data/transactions.csv, the names of the locals that are not None, the
\* option chosen last and what became of it
menu == <<data, csv_file, held, choice, outcome>>

\* the results of the reporting methods, as main keeps them
report == <<segment_summary, top_customers, contribution_pct, percentile>>

----------------------------------------------------------------------------
(* Bounds of the model *)

\* longest ledger, in rows
MaxTx == 3
\* number of customer ids a ledger row can carry
NumCust == 2
\* largest population drawn directly as a profile set
MaxPop == 3
\* largest metric value of a profile set drawn directly
ValMax == 5
\* largest monetary value of a profile set drawn for the reporting methods
MaxRev == 2
\* size of the one large population
LargePop == 50

Customers == 1..NumCust
\* calendar dates of ledger rows
Dates == {0, 1}
LastDate == CHOOSE d \in Dates : \A e \in Dates : e <= d
\* amounts of ledger rows
Amounts == {1, 2}
\* time of day of the wall clock, in ticks
TimesOfDay == {0, 1}
TicksPerDay == Cardinality(TimesOfDay)
\* wall-clock instants datetime.now() can return: not before the last date
WallClock == {(LastDate + d) * TicksPerDay + t : d \in {0, 1}, t \in TimesOfDay}

NoFrame == "NoFrame"
\* a missing category: the code -1 of a pandas Categorical
NaN == 0 - 1

----------------------------------------------------------------------------
(* Helpers *)

MaxOf(S) == CHOOSE x \in S : \A y \in S : y <= x
MinOf(S) == CHOOSE x \in S : \A y \in S : x <= y
Abs(x) == IF x < 0 THEN -x ELSE x

RECURSIVE SeqSum(_)
SeqSum(s) == IF s = <<>> THEN 0 ELSE Head(s) + SeqSum(Tail(s))

\* the elements of a set of integers in ascending order
RECURSIVE SortedSeq(_)
SortedSeq(S) == IF S = {} THEN <<>> ELSE <<MinOf(S)>> \o SortedSeq(S \ {MinOf(S)})

\* str() of a score
Str(n) == CASE n = 1 -> "1" [] n = 2 -> "2" [] n = 3 -> "3" [] n = 4 -> "4" [] n = 5 -> "5"

----------------------------------------------------------------------------
(* The ledger *)

TransactionRecord == [customer_id : Customers, date : Dates, amount : Amounts]

\* rows i carries transaction_id i: transaction ids are unique and never null
RECURSIVE Ledgers(_)
Ledgers(n) ==
  IF n = 0 THEN {<<>>}
  ELSE LET shorter == Ledgers(n - 1)
       IN shorter \cup {Append(l, t) : l \in {s \in shorter : Len(s) = n - 1}, t \in TransactionRecord}

\* a DataFrame: its columns exist or not (pd.DataFrame() has none), and its rows
Frame(rows) == [columns |-> TRUE, rows |-> rows]
BareFrame == [columns |-> FALSE, rows |-> <<>>]

----------------------------------------------------------------------------
(* RFMAnalyzer.__init__ *)

\* pd.to_datetime of a 'YYYY-MM-DD' date: the timestamp of its midnight
ToDatetime(d) == d * TicksPerDay

ConvertDates(rows) ==
  [i \in DOMAIN rows |-> [rows[i] EXCEPT !.date = ToDatetime(rows[i].date)]]

\* self.df = transactions.copy(); self.df['date'] = pd.to_datetime(self.df['date']);
\* self.analysis_date = datetime.now().  A frame without a date column raises KeyError.
\* The wall clock does not run backwards from one analyzer to the next.
Construct ==
  /\ pc = "new"
  /\ IF ledger.columns
       THEN /\ \E now \in WallClock : now >= analysis_date /\ analysis_date' = now
            /\ df' = Frame(ConvertDates(ledger.rows))
            /\ pc' = "constructed"
            /\ err' = "none"
       ELSE /\ analysis_date' = analysis_date
            /\ df' = df
            /\ pc' = "failed"
            /\ err' = "KeyError"
  /\ UNCHANGED <<ledger, rfm_data, report, arg_frame, tie_break, previous, menu>>

----------------------------------------------------------------------------
(* RFMAnalyzer.calculate_rfm *)

\* the rows of one group of groupby('customer_id'), in frame order
GroupRows(rows, c) == SelectSeq(rows, LAMBDA t : t.customer_id = c)

\* variant of GroupKeys without the grouping: one key per ledger row
GroupKeysPerRow(rows) == [i \in DOMAIN rows |-> rows[i].customer_id]

\* the group keys of groupby('customer_id'): the distinct ids, sorted
GroupKeys(rows) == SortedSeq({rows[i].customer_id : i \in DOMAIN rows})

\* variant of Recency taking the earliest date (x.min()) of the group
RecencySinceFirst(group, now) ==
  (now - MinOf({group[i].date : i \in DOMAIN group})) \div TicksPerDay

\* variant of Recency taking the date of the last row of the group
RecencySinceLastRow(group, now) ==
  (now - group[Len(group)].date) \div TicksPerDay

\* 'date': lambda x: (self.analysis_date - x.max()).days
Recency(group, now) ==
  (now - MaxOf({group[i].date : i \in DOMAIN group})) \div TicksPerDay

\* 'transaction_id': 'count'
Frequency(group) == Len(group)

\* variant of Monetary summing each distinct amount once
MonetaryDistinct(group) ==
  SeqSum(SortedSeq({group[i].amount : i \in DOMAIN group}))

\* 'amount': 'sum'
Monetary(group) == SeqSum([i \in DOMAIN group |-> group[i].amount])

calculate_rfm(rows, now) ==
  LET keys == GroupKeys(rows)
  IN [k \in DOMAIN keys |->
        LET group == GroupRows(rows, keys[k])
        IN [customer_id |-> keys[k],
            recency     |-> Recency(group, now),
            frequency   |-> Frequency(group),
            monetary    |-> Monetary(group)]]

CalculateRfm ==
  /\ pc = "constructed"
  /\ rfm_data' = calculate_rfm(df.rows, analysis_date)
  /\ pc' = "rfm"
  /\ UNCHANGED <<ledger, analysis_date, df, err, report, arg_frame, tie_break, previous, menu>>

----------------------------------------------------------------------------
(* pandas.cut(x, bins=5, labels=...) as assign_rfm_scores calls it *)

\* bins=5
NumBins == 5
\* every edge and value is compared after scaling by NumBins * 1000
EdgeScale == NumBins * 1000

\* variant of RecencyLabels in ascending order
RecencyLabelsAscending == <<1, 2, 3, 4, 5>>

\* variant of ScoreLabels in descending order
ScoreLabelsDescending == <<5, 4, 3, 2, 1>>

\* labels=[5, 4, 3, 2, 1] and labels=[1, 2, 3, 4, 5]
RecencyLabels == <<5, 4, 3, 2, 1>>
ScoreLabels == <<1, 2, 3, 4, 5>>

\* variant of BinEdge that does not lower edge 0 (the minimum falls outside)
BinEdgeUnadjusted(j, mn, mx) ==
  IF mn = mx
    THEN LET a  == IF mn # 0 THEN Abs(mn) ELSE 1
             lo == 1000 * mn - a
             hi == 1000 * mx + a
         IN NumBins * lo + j * (hi - lo)
    ELSE EdgeScale * mn + 1000 * j * (mx - mn)

\* variant of BinEdge that does not widen a zero-width range
BinEdgeNoWiden(j, mn, mx) ==
  IF j = 0
    THEN EdgeScale * mn - NumBins * (mx - mn)
    ELSE EdgeScale * mn + 1000 * j * (mx - mn)

\* Edge j (0..NumBins) of the bins, times EdgeScale.  For mn < mx the edges are
\* linspace(mn, mx, 6) with edge 0 lowered by 0.1% of the range; for mn = mx
\* they are linspace(mn - 0.001|mn|, mx + 0.001|mx|, 6) (0.001 for a zero).
BinEdge(j, mn, mx) ==
  IF mn = mx
    THEN LET a  == IF mn # 0 THEN Abs(mn) ELSE 1
             lo == 1000 * mn - a
             hi == 1000 * mx + a
         IN NumBins * lo + j * (hi - lo)
    ELSE IF j = 0
      THEN EdgeScale * mn - NumBins * (mx - mn)
      ELSE EdgeScale * mn + 1000 * j * (mx - mn)

\* variant of SearchSorted with side='right': the number of edges not above x
SearchSortedRight(x, mn, mx) ==
  Cardinality({j \in 0..NumBins : BinEdge(j, mn, mx) <= EdgeScale * x})

\* bins.searchsorted(x, side='left'): the number of edges below x
SearchSorted(x, mn, mx) ==
  Cardinality({j \in 0..NumBins : BinEdge(j, mn, mx) < EdgeScale * x})

\* the label of the right-closed bin x falls in, NaN outside (bins[0], bins[5]]
Cut(x, vals, labels) ==
  LET ids == SearchSorted(x, MinOf(vals), MaxOf(vals))
  IN IF ids = 0 \/ ids = NumBins + 1 THEN NaN ELSE labels[ids]

----------------------------------------------------------------------------
(* RFMAnalyzer.assign_rfm_scores *)

Column(frame, col) == {frame[i][col] : i \in DOMAIN frame}

\* a row with the columns of s added (or overwritten)
WithColumns(row, s) == s @@ row

\* lines 49-63: the three categorical score columns, set in place
CutScores(frame) ==
  [i \in DOMAIN frame |->
     WithColumns(frame[i],
       [R_score |-> Cut(frame[i].recency, Column(frame, "recency"), RecencyLabels),
        F_score |-> Cut(frame[i].frequency, Column(frame, "frequency"), ScoreLabels),
        M_score |-> Cut(frame[i].monetary, Column(frame, "monetary"), ScoreLabels)])]

\* lines 71-73: the composite string
WithRfmScore(frame) ==
  [i \in DOMAIN frame |->
     WithColumns(frame[i],
       [RFM_score |-> Str(frame[i].R_score) \o Str(frame[i].F_score) \o Str(frame[i].M_score)])]

HasNaN(frame) ==
  \E i \in DOMAIN frame : NaN \in {frame[i].R_score, frame[i].F_score, frame[i].M_score}

\* pd.cut raises ValueError on an empty column (line 49); astype(int) raises
\* ValueError on a NaN score (lines 66-68), after the columns were set in place.
\* arg_frame is the frame object the caller passed, as it is after the call:
\* the method assigns its columns into that object and returns it (line 77).
AssignRfmScores ==
  /\ pc = "rfm"
  /\ IF rfm_data = <<>>
       THEN /\ rfm_data' = rfm_data
            /\ pc' = "failed"
            /\ err' = "ValueError"
       ELSE IF HasNaN(CutScores(rfm_data))
         THEN /\ rfm_data' = CutScores(rfm_data)
              /\ pc' = "failed"
              /\ err' = "ValueError"
         ELSE /\ rfm_data' = WithRfmScore(CutScores(rfm_data))
              /\ pc' = "scored"
              /\ err' = err
  /\ arg_frame' = rfm_data'
  /\ UNCHANGED <<ledger, analysis_date, df, report, tie_break, previous, menu>>

----------------------------------------------------------------------------
(* RFMAnalyzer.segment_customers *)

\* variant of get_segment testing the Loyal Customers rule first
get_segment_loyal_first(row) ==
  LET r == row.R_score
      f == row.F_score
      m == row.M_score
  IN IF r >= 3 /\ f >= 3 THEN "Loyal Customers"
     ELSE IF r >= 4 /\ f >= 4 /\ m >= 4 THEN "Champions"
     ELSE IF r >= 4 /\ f <= 2 THEN "Potential Loyalists"
     ELSE IF r <= 2 /\ f >= 3 THEN "At Risk"
     ELSE IF r <= 2 /\ f <= 2 THEN "Lost"
     ELSE "Others"

\* variant of get_segment whose Champions rule does not read M_score
get_segment_without_m(row) ==
  LET r == row.R_score
      f == row.F_score
  IN IF r >= 4 /\ f >= 4 THEN "Champions"
     ELSE IF r >= 3 /\ f >= 3 THEN "Loyal Customers"
     ELSE IF r >= 4 /\ f <= 2 THEN "Potential Loyalists"
     ELSE IF r <= 2 /\ f >= 3 THEN "At Risk"
     ELSE IF r <= 2 /\ f <= 2 THEN "Lost"
     ELSE "Others"

\* variant of get_segment whose Potential Loyalists rule starts at R_score 3
get_segment_potential_from_3(row) ==
  LET r == row.R_score
      f == row.F_score
      m == row.M_score
  IN IF r >= 4 /\ f >= 4 /\ m >= 4 THEN "Champions"
     ELSE IF r >= 3 /\ f >= 3 THEN "Loyal Customers"
     ELSE IF r >= 3 /\ f <= 2 THEN "Potential Loyalists"
     ELSE IF r <= 2 /\ f >= 3 THEN "At Risk"
     ELSE IF r <= 2 /\ f <= 2 THEN "Lost"
     ELSE "Others"

\* the five segments of SEGMENTS
NamedSegments ==
  {"Champions", "Loyal Customers", "Potential Loyalists", "At Risk", "Lost"}

get_segment(row) ==
  LET r == row.R_score
      f == row.F_score
      m == row.M_score
  IN IF r >= 4 /\ f >= 4 /\ m >= 4 THEN "Champions"
     ELSE IF r >= 3 /\ f >= 3 THEN "Loyal Customers"
     ELSE IF r >= 4 /\ f <= 2 THEN "Potential Loyalists"
     ELSE IF r <= 2 /\ f >= 3 THEN "At Risk"
     ELSE IF r <= 2 /\ f <= 2 THEN "Lost"
     ELSE "Others"

segment_customers(frame) ==
  [i \in DOMAIN frame |-> WithColumns(frame[i], [segment |-> get_segment(frame[i])])]

\* rfm_data['segment'] = rfm_data.apply(get_segment, axis=1); return rfm_data
SegmentCustomers ==
  /\ pc = "scored"
  /\ rfm_data' = segment_customers(rfm_data)
  /\ pc' = "segmented"
  /\ arg_frame' = rfm_data'
  /\ UNCHANGED <<ledger, analysis_date, df, err, report, tie_break, previous, menu>>

----------------------------------------------------------------------------
(* Floats: exact fractions, and nan *)

RECURSIVE GCD(_, _)
GCD(a, b) == IF b = 0 THEN a ELSE GCD(b, a % b)

\* the float n / d, for n >= 0 and d > 0, in lowest terms
Float(n, d) == [nan |-> FALSE, num |-> n \div GCD(n, d), den |-> d \div GCD(n, d)]
FloatNaN == [nan |-> TRUE, num |-> 0, den |-> 1]

Add(a, b) ==
  IF a.nan \/ b.nan THEN FloatNaN ELSE Float(a.num * b.den + b.num * a.den, a.den * b.den)
Mul(a, b) ==
  IF a.nan \/ b.nan THEN FloatNaN ELSE Float(a.num * b.num, a.den * b.den)
\* numpy division: 0 / 0 is nan (a RuntimeWarning, no exception)
Div(a, b) ==
  IF a.nan \/ b.nan \/ b.num = 0 THEN FloatNaN ELSE Float(a.num * b.den, a.den * b.num)

RECURSIVE FloatSum(_)
FloatSum(s) == IF s = <<>> THEN Float(0, 1) ELSE Add(Head(s), FloatSum(Tail(s)))

\* Series.round(2): to the nearest hundredth, a half to the even hundredth
Round2(x) ==
  IF x.nan THEN FloatNaN
  ELSE LET q == (x.num * 100) \div x.den
           r == (x.num * 100) % x.den
       IN Float(IF 2 * r < x.den THEN q
                ELSE IF 2 * r > x.den THEN q + 1
                ELSE IF q % 2 = 0 THEN q ELSE q + 1, 100)

\* a value that was not computed yet
None == "None"

----------------------------------------------------------------------------
(* RFMAnalyzer.calculate_customer_value *)

\* variant of CLV without the multiplier 0.5
CLVOfEveryPurchase(row) ==
  LET avg_purchase == Div(Float(row.monetary, 1), Float(row.frequency, 1))
      estimated_future == Float(row.frequency, 1)
  IN Mul(avg_purchase, estimated_future)

\* lines 132-139: (monetary / frequency) * (frequency * 0.5)
CLV(row) ==
  LET avg_purchase == Div(Float(row.monetary, 1), Float(row.frequency, 1))
      estimated_future == Mul(Float(row.frequency, 1), Float(1, 2))
  IN Mul(avg_purchase, estimated_future)

calculate_customer_value(frame) ==
  [i \in DOMAIN frame |-> WithColumns(frame[i], [CLV |-> CLV(frame[i])])]

\* rfm_data['CLV'] = ...; return rfm_data
CalculateCustomerValue ==
  /\ pc = "segmented"
  /\ rfm_data' = calculate_customer_value(rfm_data)
  /\ pc' = "valued"
  /\ arg_frame' = rfm_data'
  /\ UNCHANGED <<ledger, analysis_date, df, err, report, tie_break, previous, menu>>

----------------------------------------------------------------------------
(* DataFrame.sort_values(col, ascending=False) *)

\* The default kind is 'quicksort', which numpy documents as not stable: the
\* order of rows with equal keys is the build's.  tie_break stands for it:
\* equal keys stay in input order, or come out in the reverse of it.
TieBreaks == {"input order", "reverse order"}

\* variant of SortValues that sorts ascending
RECURSIVE SortValuesAscending(_, _, _, _)
SortValuesAscending(frame, col, tb, S) ==
  IF S = {} THEN <<>>
  ELSE LET first == {i \in S : \A j \in S : frame[i][col] <= frame[j][col]}
           i == IF tb = "input order" THEN MinOf(first) ELSE MaxOf(first)
       IN <<frame[i]>> \o SortValuesAscending(frame, col, tb, S \ {i})

\* the rows of frame with index in S, largest key first
RECURSIVE SortValues(_, _, _, _)
SortValues(frame, col, tb, S) ==
  IF S = {} THEN <<>>
  ELSE LET first == {i \in S : \A j \in S : frame[j][col] <= frame[i][col]}
           i == IF tb = "input order" THEN MinOf(first) ELSE MaxOf(first)
       IN <<frame[i]>> \o SortValues(frame, col, tb, S \ {i})

----------------------------------------------------------------------------
(* RFMAnalyzer.get_segment_summary *)

\* groupby('segment') sorts its keys: the segment labels in string order
SegmentOrder ==
  <<"At Risk", "Champions", "Lost", "Loyal Customers", "Others", "Potential Loyalists">>

\* variant of SegmentKeys that leaves the fallback segment out
SegmentKeysWithoutOthers(frame) ==
  SelectSeq(SegmentOrder, LAMBDA g : g \in Column(frame, "segment") /\ g # "Others")

\* the group keys: every segment that occurs, once
SegmentKeys(frame) ==
  SelectSeq(SegmentOrder, LAMBDA g : g \in Column(frame, "segment"))

SegmentRows(frame, g) == SelectSeq(frame, LAMBDA row : row.segment = g)

ColumnSum(frame, col) == SeqSum([i \in DOMAIN frame |-> frame[i][col]])
ColumnMean(frame, col) == Div(Float(ColumnSum(frame, col), 1), Float(Len(frame), 1))

\* lines 146-155: count, sum, mean, mean, sum of each group
Aggregate(frame) ==
  LET keys == SegmentKeys(frame)
  IN [k \in DOMAIN keys |->
        LET group == SegmentRows(frame, keys[k])
        IN [segment        |-> keys[k],
            customer_count |-> Len(group),
            total_revenue  |-> ColumnSum(group, "monetary"),
            avg_frequency  |-> ColumnMean(group, "frequency"),
            avg_recency    |-> ColumnMean(group, "recency"),
            total_clv      |-> FloatSum([i \in DOMAIN group |-> group[i].CLV])]]

\* variant of RevenuePct without the factor 100: a share of 1
RevenueShare(revenue, total) ==
  Round2(Div(Float(revenue, 1), Float(total, 1)))

\* line 159: (summary['total_revenue'] / total_revenue * 100).round(2)
RevenuePct(revenue, total) ==
  Round2(Mul(Div(Float(revenue, 1), Float(total, 1)), Float(100, 1)))

get_segment_summary(frame, tb) ==
  LET summary == Aggregate(frame)
      total_revenue == ColumnSum(summary, "total_revenue")
      with_pct == [k \in DOMAIN summary |->
                     WithColumns(summary[k],
                       [revenue_pct |-> RevenuePct(summary[k].total_revenue, total_revenue)])]
  IN SortValues(with_pct, "total_revenue", tb, DOMAIN with_pct)

\* the passed frame is read, not written
GetSegmentSummary ==
  /\ pc = "valued"
  /\ segment_summary' = get_segment_summary(rfm_data, tie_break)
  /\ pc' = "summarised"
  /\ arg_frame' = rfm_data
  /\ UNCHANGED <<ledger, analysis_date, df, rfm_data, err, top_customers,
                 contribution_pct, percentile, tie_break, previous, menu>>

----------------------------------------------------------------------------
(* RFMAnalyzer.identify_top_customers *)

\* percentile=20
DefaultPercentile == 20
\* percentiles a caller passes
Percentiles == {1, DefaultPercentile, 58, 100}

RECURSIVE Pow2(_)
Pow2(e) == IF e = 0 THEN 1 ELSE 2 * Pow2(e - 1)
RECURSIVE Pow2Mod(_, _)
Pow2Mod(e, m) == IF e = 0 THEN 1 % m ELSE (2 * Pow2Mod(e - 1, m)) % m
\* floor(log2(a / b)) for a, b > 0
RECURSIVE FloorLog2(_, _)
FloorLog2(a, b) ==
  IF a >= 2 * b THEN FloorLog2(a, 2 * b) + 1
  ELSE IF a < b THEN FloorLog2(2 * a, b) - 1
  ELSE 0

\* percentile / 100 is a double: the quotient p * 2^s / 100 rounded to an
\* integer mantissa of 53 bits, half to even, where s is FracShift(p).
FracShift(p) == 52 - FloorLog2(p, 100)
\* p * 2^s modulo 200: the remainder of that division and the parity of its quotient
FracRem(p) == (p * Pow2Mod(FracShift(p), 200)) % 200
\* the rounded mantissa minus the exact quotient, in hundredths
FracErr(p) ==
  LET r == FracRem(p) % 100
      odd == FracRem(p) >= 100
  IN IF r < 50 THEN 0 - r
     ELSE IF r > 50 THEN 100 - r
     ELSE IF odd THEN 50 ELSE 0 - 50

\* line 175: int(len(sorted_customers) * (percentile / 100)).  The product of
\* n and the double percentile / 100 is rounded to a double and truncated.
\* When n * p / 100 is no integer the rounding (below 2^-40) cannot cross an
\* integer, which is at least 1/100 away.  When it is an integer k, the exact
\* product is k + n * FracErr(p) / (100 * 2^s): it rounds to k unless it lies
\* more than half the gap between k and the double before k below k, and then
\* the truncation gives k - 1.
TopN(n, p) ==
  IF n = 0 \/ (n * p) % 100 # 0 THEN (n * p) \div 100
  ELSE LET k == (n * p) \div 100
           below == 0 - n * FracErr(p)
           ek == FloorLog2(k, 1)
           ex == FracShift(p) + ek - 53 - (IF k = Pow2(ek) THEN 1 ELSE 0)
       IN IF below <= 0 THEN k
          ELSE IF ex >= 0 /\ below <= 100 * Pow2(ex) THEN k
          ELSE IF ex < 0 /\ below * Pow2(0 - ex) <= 100 THEN k
          ELSE k - 1

\* lines 172-181; head(top_n) is the first top_n rows
top_customers_of(frame, p, tb) ==
  SubSeq(SortValues(frame, "monetary", tb, DOMAIN frame), 1, TopN(Len(frame), p))

\* line 181: top_revenue / total_revenue * 100, not guarded against a zero total
ContributionPct(top, frame) ==
  Mul(Div(Float(ColumnSum(top, "monetary"), 1), Float(ColumnSum(frame, "monetary"), 1)),
      Float(100, 1))

\* The passed frame is read, not written; a nan contribution is returned as
\* it is.  The two sums of an empty frame are numpy zeros when its monetary
\* column has a numeric dtype and Python ints when it has dtype object (a
\* frame built from column names only): 0 / 0 is nan for the former and
\* raises ZeroDivisionError for the latter.
IdentifyTopCustomers(p) ==
  /\ pc = "summarised"
  /\ percentile' = p
  /\ arg_frame' = rfm_data
  /\ \/ /\ top_customers' = top_customers_of(rfm_data, p, tie_break)
        /\ contribution_pct' = ContributionPct(top_customers', rfm_data)
        /\ pc' = "done"
        /\ err' = err
     \/ /\ rfm_data = <<>>
        /\ UNCHANGED <<top_customers, contribution_pct>>
        /\ pc' = "failed"
        /\ err' = "ZeroDivisionError"
  /\ UNCHANGED <<ledger, analysis_date, df, rfm_data, segment_summary, tie_break, previous, menu>>

----------------------------------------------------------------------------
(* The pipeline of main.perform_rfm_analysis on a ledger; no method of it sorts *)

\* the outputs of one run of the whole analysis
Outputs(ran) ==
  [ran |-> ran, rfm_data |-> rfm_data, segment_summary |-> segment_summary,
   top_customers |-> top_customers, contribution_pct |-> contribution_pct]

\* data/transactions.csv does not exist
NoFile == [exists |-> FALSE, frame |-> BareFrame]

\* before the reporting methods ran, before any run completed, and with no
\* menu option chosen
NothingReported ==
  /\ segment_summary = None
  /\ top_customers = None
  /\ contribution_pct = None
  /\ percentile = None
  /\ arg_frame = None
  /\ previous = [ran |-> FALSE]
  /\ data = None
  /\ csv_file = NoFile
  /\ held = {}
  /\ choice = 0
  /\ outcome = "none"

Init ==
  /\ ledger \in {BareFrame} \cup {Frame(l) : l \in Ledgers(MaxTx)}
  /\ analysis_date = 0
  /\ df = NoFrame
  /\ rfm_data = NoFrame
  /\ pc = "new"
  /\ err = "none"
  /\ NothingReported
  /\ tie_break = "input order"

Next ==
  \/ Construct
  \/ CalculateRfm
  \/ AssignRfmScores
  \/ SegmentCustomers
  \/ CalculateCustomerValue

Spec == Init /\ [][Next]_vars

----------------------------------------------------------------------------
(* assign_rfm_scores and segment_customers on profile sets drawn directly *)

Metrics == {"recency", "frequency", "monetary"}

\* a profile set of n customers from three columns of values; a frequency is
\* a count of at least one transaction
Profiles(n, r, f, m) ==
  [i \in 1..n |-> [customer_id |-> i, recency |-> r[i], frequency |-> f[i] + 1, monetary |-> m[i]]]

Ramp(n) == [i \in 1..n |-> i - 1]

\* one column takes any values, the other two are the ramp 0, 1, ..
OneFreeColumn ==
  {Profiles(n, IF c = "recency" THEN v ELSE Ramp(n),
               IF c = "frequency" THEN v ELSE Ramp(n),
               IF c = "monetary" THEN v ELSE Ramp(n)) :
     <<n, c, v>> \in UNION {{<<n, c, v>> : c \in Metrics, v \in [1..n -> 0..ValMax]} : n \in 1..MaxPop}}

\* the value of customer i >= 2 in a column: the same as customer 1's, or
\* spread over the extremes (odd customers the best, even ones the worst)
Other(i, shape, mine, best, worst) ==
  IF shape = "same" THEN mine ELSE IF i % 2 = 1 THEN best ELSE worst

\* customer 1 takes any values, the others follow a shape in each column
OneFreeCustomer ==
  {Profiles(n, [i \in 1..n |-> IF i = 1 THEN p[1] ELSE Other(i, sh[1], p[1], 0, ValMax)],
               [i \in 1..n |-> IF i = 1 THEN p[2] ELSE Other(i, sh[2], p[2], ValMax, 0)],
               [i \in 1..n |-> IF i = 1 THEN p[3] ELSE Other(i, sh[3], p[3], ValMax, 0)]) :
     <<n, p, sh>> \in (2..MaxPop) \X [1..3 -> 0..ValMax] \X [1..3 -> {"same", "spread"}]}

InitScore ==
  /\ ledger = NoFrame
  /\ analysis_date = 0
  /\ df = NoFrame
  /\ rfm_data \in OneFreeColumn \cup OneFreeCustomer
  /\ pc = "rfm"
  /\ err = "none"
  /\ NothingReported
  /\ tie_break = "input order"

NextScore ==
  \/ AssignRfmScores
  \/ SegmentCustomers

SpecScore == InitScore /\ [][NextScore]_vars

----------------------------------------------------------------------------
(* The scoring and reporting methods on profile sets drawn directly *)

Shapes == {"ramp", "reverse", "constant"}
ShapeColumn(sh, n) ==
  [i \in 1..n |-> IF sh = "ramp" THEN i - 1 ELSE IF sh = "reverse" THEN n - i ELSE 0]

\* recency and frequency follow a shape, monetary takes any values
ReportProfiles ==
  {Profiles(n, ShapeColumn(sr, n), ShapeColumn(sf, n), m) :
     <<n, sr, sf, m>> \in UNION {{<<n, sr, sf, m>> : sr \in Shapes, sf \in Shapes,
                                                    m \in [1..n -> 0..MaxRev]} : n \in 1..MaxPop}}

\* one large population whose three columns are the ramp 0, 1, ..
LargeProfiles == Profiles(LargePop, Ramp(LargePop), Ramp(LargePop), Ramp(LargePop))

\* The profile set of no customer, with every column.  assign_rfm_scores does
\* not return on it (pd.cut raises): a caller hands it to the reporting
\* methods directly.
EmptyProfiles == <<>>

\* The profile sets calculate_rfm returns for a ledger of three customers:
\* customer 1 with 5 purchases totalling 50000, the latest 0 to 10 days ago,
\* customer 2 with 1 purchase of 500, 400 days ago, and customer 3 with 2
\* purchases totalling 3000, the latest 45 days ago.
ThreeCustomerProfiles ==
  {<<[customer_id |-> 1, recency |-> d, frequency |-> 5, monetary |-> 50000],
     [customer_id |-> 2, recency |-> 400, frequency |-> 1, monetary |-> 500],
     [customer_id |-> 3, recency |-> 45, frequency |-> 2, monetary |-> 3000]>> : d \in 0..10}

InitReport ==
  /\ ledger = NoFrame
  /\ analysis_date = 0
  /\ df = NoFrame
  /\ \/ rfm_data \in ReportProfiles \cup {LargeProfiles} \cup ThreeCustomerProfiles /\ pc = "rfm"
     \/ rfm_data = EmptyProfiles /\ pc = "valued"
  /\ err = "none"
  /\ NothingReported
  /\ tie_break \in TieBreaks

NextReport ==
  \/ AssignRfmScores
  \/ SegmentCustomers
  \/ CalculateCustomerValue
  \/ GetSegmentSummary
  \/ \E p \in Percentiles : IdentifyTopCustomers(p)

SpecReport == InitReport /\ [][NextReport]_vars

----------------------------------------------------------------------------
(* main.run_complete_analysis, run twice on one ledger *)

\* the first run's outputs are kept and the analysis starts again
Rerun ==
  /\ pc = "done"
  /\ ~previous.ran
  /\ previous' = Outputs(TRUE)
  /\ pc' = "new"
  /\ UNCHANGED <<ledger, analysis_date, df, rfm_data, err, report, arg_frame, tie_break, menu>>

InitRerun ==
  /\ ledger \in {Frame(l) : l \in Ledgers(MaxTx - 1)}
  /\ analysis_date = 0
  /\ df = NoFrame
  /\ rfm_data = NoFrame
  /\ pc = "new"
  /\ err = "none"
  /\ NothingReported
  /\ tie_break \in TieBreaks

NextRerun ==
  \/ Construct
  \/ CalculateRfm
  \/ AssignRfmScores
  \/ SegmentCustomers
  \/ CalculateCustomerValue
  \/ GetSegmentSummary
  \/ IdentifyTopCustomers(DefaultPercentile)
  \/ Rerun

SpecRerun == InitRerun /\ [][NextRerun]_vars

----------------------------------------------------------------------------
(* main.perform_rfm_analysis as one call *)

\* RFMAnalyzer(data), calculate_rfm, assign_rfm_scores, segment_customers and
\* calculate_customer_value in turn: the profile set, or the exception that
\* ends the call
perform_rfm_analysis(frame, now) ==
  IF ~frame.columns THEN [err |-> "KeyError", rfm_data |-> <<>>]
  ELSE LET rfm == calculate_rfm(ConvertDates(frame.rows), now)
       IN IF rfm = <<>> \/ HasNaN(CutScores(rfm))
            THEN [err |-> "ValueError", rfm_data |-> <<>>]
            ELSE [err |-> "none",
                  rfm_data |-> calculate_customer_value(
                                 segment_customers(WithRfmScore(CutScores(rfm))))]

----------------------------------------------------------------------------
(* The interactive menu of main.main *)

\* ledgers generate_retail_data returns: at least one row, every column
Generated ==
  {Frame(<<[customer_id |-> 1, date |-> 0, amount |-> 1]>>),
   Frame(<<[customer_id |-> 1, date |-> 1, amount |-> 2],
           [customer_id |-> 2, date |-> 0, amount |-> 1]>>)}

\* to_csv, then read_csv: the frame comes back with its columns and rows
CsvOf(frame) == [exists |-> TRUE, frame |-> frame]

\* data/transactions.csv as the application finds it: missing, without the
\* required columns, with the header only, or an earlier ledger
CsvFiles == {NoFile, CsvOf(BareFrame), CsvOf(Frame(<<>>))} \cup {CsvOf(f) : f \in Generated}

\* an uncaught exception ends main
Crash(e) ==
  /\ pc' = "crashed"
  /\ err' = e
  /\ outcome' = "raised"

\* option 1: data = generate_data(), which also saves the file
Option1 ==
  /\ pc = "menu"
  /\ choice' = 1
  /\ \E d \in Generated : data' = d /\ csv_file' = CsvOf(d)
  /\ held' = held \cup {"data"}
  /\ outcome' = "done"
  /\ UNCHANGED <<ledger, analysis_date, df, rfm_data, pc, err, report, arg_frame,
                 tie_break, previous>>

\* option 2: data is read from the file if it is None (FileNotFoundError
\* without the file), then rfm_data = perform_rfm_analysis(data)
Option2 ==
  /\ pc = "menu"
  /\ choice' = 2
  /\ IF "data" \notin held /\ ~csv_file.exists
       THEN /\ Crash("FileNotFoundError")
            /\ UNCHANGED <<data, held, rfm_data, analysis_date>>
       ELSE \E now \in WallClock :
              LET source == IF "data" \in held THEN data ELSE csv_file.frame
                  result == perform_rfm_analysis(source, now)
              IN /\ now >= analysis_date
                 /\ data' = source
                 /\ analysis_date' = IF result.err = "KeyError" THEN analysis_date ELSE now
                 /\ IF result.err = "none"
                      THEN /\ rfm_data' = result.rfm_data
                           /\ held' = held \cup {"data", "rfm_data"}
                           /\ outcome' = "done"
                           /\ UNCHANGED <<pc, err>>
                      ELSE /\ Crash(result.err)
                           /\ held' = held \cup {"data"}
                           /\ UNCHANGED rfm_data
  /\ UNCHANGED <<ledger, df, csv_file, report, arg_frame, tie_break, previous>>

\* option 3: refused without rfm_data; otherwise show_segmentation, which
\* builds RFMAnalyzer(pd.DataFrame()) before it summarises (line 91)
Option3 ==
  /\ pc = "menu"
  /\ choice' = 3
  /\ IF "rfm_data" \notin held
       THEN /\ outcome' = "refused"
            /\ UNCHANGED <<pc, err, held, segment_summary, top_customers,
                           contribution_pct, percentile>>
       ELSE IF BareFrame.columns
         THEN /\ segment_summary' = get_segment_summary(rfm_data, tie_break)
              /\ top_customers' = top_customers_of(rfm_data, DefaultPercentile, tie_break)
              /\ contribution_pct' = ContributionPct(top_customers', rfm_data)
              /\ percentile' = DefaultPercentile
              /\ held' = held \cup {"segment_summary", "top_customers"}
              /\ outcome' = "done"
              /\ UNCHANGED <<pc, err>>
         ELSE /\ Crash("KeyError")
              /\ UNCHANGED <<held, segment_summary, top_customers, contribution_pct, percentile>>
  /\ UNCHANGED <<ledger, analysis_date, df, rfm_data, arg_frame, tie_break, previous,
                 data, csv_file>>

\* variant of Refuses that asks for rfm_data only
RefusesWithoutSummary(n) == "rfm_data" \notin held

\* options 4, 5, 7: if rfm_data is None or segment_summary is None
Refuses(n) == "rfm_data" \notin held \/ "segment_summary" \notin held

\* options 4, 5 and 7: charts, Excel reports, recommendations
OptionReport(n) ==
  /\ pc = "menu"
  /\ choice' = n
  /\ outcome' = IF Refuses(n) THEN "refused" ELSE "invoked"
  /\ UNCHANGED <<ledger, analysis_date, df, rfm_data, pc, err, report, arg_frame,
                 tie_break, previous, data, csv_file, held>>

\* option 6: the dashboard, refused without segment_summary; db is opened on demand
Option6 ==
  /\ pc = "menu"
  /\ choice' = 6
  /\ IF "segment_summary" \notin held
       THEN outcome' = "refused" /\ held' = held
       ELSE outcome' = "invoked" /\ held' = held \cup {"db"}
  /\ UNCHANGED <<ledger, analysis_date, df, rfm_data, pc, err, report, arg_frame,
                 tie_break, previous, data, csv_file>>

\* variant of HeldAfterComplete: the results of the run are bound in main
HeldAfterCompleteBinds ==
  held \cup {"data", "rfm_data", "segment_summary", "top_customers", "db"}

\* run_complete_analysis() returns nothing and main binds no name to it
HeldAfterComplete == held

\* option 8: run_complete_analysis asks for a confirmation; on 'y' it
\* generates and saves a ledger and runs the whole analysis on locals of its own
Option8 ==
  /\ pc = "menu"
  /\ choice' = 8
  /\ \E confirm \in {"y", "n"} :
       IF confirm # "y"
         THEN /\ outcome' = "declined"
              /\ held' = HeldAfterComplete
              /\ UNCHANGED <<csv_file, analysis_date, pc, err>>
         ELSE \E d \in Generated, now \in WallClock :
                LET result == perform_rfm_analysis(d, now)
                IN /\ now >= analysis_date
                   /\ analysis_date' = now
                   /\ csv_file' = CsvOf(d)
                   /\ IF result.err = "none"
                        THEN /\ outcome' = "done"
                             /\ held' = HeldAfterComplete
                             /\ UNCHANGED <<pc, err>>
                        ELSE /\ Crash(result.err)
                             /\ held' = held
  /\ UNCHANGED <<ledger, df, rfm_data, report, arg_frame, tie_break, previous, data>>

\* option 9: leave the loop
Option9 ==
  /\ pc = "menu"
  /\ choice' = 9
  /\ pc' = "exited"
  /\ outcome' = "done"
  /\ UNCHANGED <<ledger, analysis_date, df, rfm_data, err, report, arg_frame,
                 tie_break, previous, data, csv_file, held>>

\* any other input: 'Invalid choice!' or 'Invalid input!'
InvalidChoice ==
  /\ pc = "menu"
  /\ choice' = 0
  /\ outcome' = "invalid"
  /\ UNCHANGED <<ledger, analysis_date, df, rfm_data, pc, err, report, arg_frame,
                 tie_break, previous, data, csv_file, held>>

\* lines 313-317: every local of main is None
InitMenu ==
  /\ ledger = NoFrame
  /\ analysis_date = 0
  /\ df = NoFrame
  /\ rfm_data = None
  /\ pc = "menu"
  /\ err = "none"
  /\ segment_summary = None
  /\ top_customers = None
  /\ contribution_pct = None
  /\ percentile = None
  /\ arg_frame = None
  /\ previous = [ran |-> FALSE]
  /\ tie_break \in TieBreaks
  /\ data = None
  /\ csv_file \in CsvFiles
  /\ held = {}
  /\ choice = 0
  /\ outcome = "none"

NextMenu ==
  \/ Option1
  \/ Option2
  \/ Option3
  \/ \E n \in {4, 5, 7} : OptionReport(n)
  \/ Option6
  \/ Option8
  \/ Option9
  \/ InvalidChoice

SpecMenu == InitMenu /\ [][NextMenu]_vars

----------------------------------------------------------------------------
(* Properties of calculate_rfm, under Spec *)

\* calculate_rfm has returned and the later steps have not failed
HasProfiles == pc \in {"rfm", "scored", "segmented"}

LedgerRowsOf(c) == {i \in DOMAIN ledger.rows : ledger.rows[i].customer_id = c}
LedgerCustomers == {ledger.rows[i].customer_id : i \in DOMAIN ledger.rows}

RECURSIVE AmountOver(_)
AmountOver(S) ==
  IF S = {} THEN 0
  ELSE LET i == CHOOSE i \in S : TRUE IN ledger.rows[i].amount + AmountOver(S \ {i})

\* C1: for a non-empty ledger the profile set has exactly one row for every
\* customer_id of the ledger and no row for any other id.
C1_OneRowPerCustomer ==
  (HasProfiles /\ ledger.rows # <<>>) =>
     /\ \A c \in LedgerCustomers :
          Cardinality({k \in DOMAIN rfm_data : rfm_data[k].customer_id = c}) = 1
     /\ \A k \in DOMAIN rfm_data : rfm_data[k].customer_id \in LedgerCustomers

\* two customers, one of them with a single transaction
C1_Witness ==
  /\ pc = "rfm"
  /\ Len(rfm_data) = 2
  /\ \E k \in DOMAIN rfm_data : Cardinality(LedgerRowsOf(rfm_data[k].customer_id)) = 1
  /\ \E k \in DOMAIN rfm_data : Cardinality(LedgerRowsOf(rfm_data[k].customer_id)) = 2

\* C2: a profile's frequency is the number of ledger rows of its customer and
\* its monetary is the sum of the amounts of exactly those rows.
C2_FrequencyAndMonetary ==
  HasProfiles =>
     \A k \in DOMAIN rfm_data :
        /\ rfm_data[k].frequency = Cardinality(LedgerRowsOf(rfm_data[k].customer_id))
        /\ rfm_data[k].monetary = AmountOver(LedgerRowsOf(rfm_data[k].customer_id))

\* a customer with two rows of the same amount, between rows of another customer
C2_Witness ==
  /\ pc = "rfm"
  /\ Len(ledger.rows) = 3
  /\ ledger.rows[1].customer_id = ledger.rows[3].customer_id
  /\ ledger.rows[1].customer_id # ledger.rows[2].customer_id
  /\ ledger.rows[1].amount = ledger.rows[3].amount
  /\ \E k \in DOMAIN rfm_data : rfm_data[k].frequency = 2 /\ rfm_data[k].monetary = 4

\* C3: a profile's recency is the number of whole days from the latest date of
\* its customer's ledger rows to the date of analysis_date.
C3_Recency ==
  HasProfiles =>
     \A k \in DOMAIN rfm_data :
        rfm_data[k].recency =
          (analysis_date \div TicksPerDay)
            - MaxOf({ledger.rows[i].date : i \in LedgerRowsOf(rfm_data[k].customer_id)})

\* analysis_date is not a midnight; a customer bought on two dates, the other
\* customer on the first date only
C3_Witness ==
  /\ pc = "rfm"
  /\ analysis_date % TicksPerDay # 0
  /\ Len(rfm_data) = 2
  /\ \E k \in DOMAIN rfm_data :
       /\ {ledger.rows[i].date : i \in LedgerRowsOf(rfm_data[k].customer_id)} = {0, 1}
       /\ rfm_data[k].recency < rfm_data[3 - k].recency

\* C10: on an empty ledger, constructing the analyzer and computing the base
\* metrics raises no error and yields an empty profile set.
C10_EmptyLedgerNoError ==
  (ledger.rows = <<>>) =>
     /\ err # "KeyError"
     /\ pc = "rfm" => rfm_data = <<>>

----------------------------------------------------------------------------
(* Properties of segment_customers, under SpecScore *)

\* the priority table of the segments: the condition and the label of each row
SegmentTable(r, f, m) ==
  << <<r >= 4 /\ f >= 4 /\ m >= 4, "Champions">>,
     <<r >= 3 /\ f >= 3,           "Loyal Customers">>,
     <<r >= 4 /\ f <= 2,           "Potential Loyalists">>,
     <<r <= 2 /\ f >= 3,           "At Risk">>,
     <<r <= 2 /\ f <= 2,           "Lost">>,
     <<TRUE,                       "Others">> >>

FirstMatch(r, f, m) ==
  LET t == SegmentTable(r, f, m)
  IN t[MinOf({k \in DOMAIN t : t[k][1]})][2]

\* C4: every customer gets the label of the first matching row of the priority
\* table; (5,5,5) gives Champions and (1,1,1) gives Lost.
C4_FirstMatchingRow ==
  pc = "segmented" =>
     \A i \in DOMAIN rfm_data :
        LET row == rfm_data[i]
        IN /\ row.segment = FirstMatch(row.R_score, row.F_score, row.M_score)
           /\ row.RFM_score = "555" => row.segment = "Champions"
           /\ row.RFM_score = "111" => row.segment = "Lost"

\* a population holding a (5,5,5) customer, a (1,1,1) customer and a customer
\* that matches the Loyal Customers row only after failing the Champions row
C4_Witness ==
  /\ pc = "segmented"
  /\ \E i, j, k \in DOMAIN rfm_data :
       /\ rfm_data[i].RFM_score = "555" /\ rfm_data[i].segment = "Champions"
       /\ rfm_data[j].RFM_score = "111" /\ rfm_data[j].segment = "Lost"
       /\ rfm_data[k].RFM_score = "443" /\ rfm_data[k].segment = "Loyal Customers"

SameRF(a, b) == a.R_score = b.R_score /\ a.F_score = b.F_score

\* C5 as stated: two customers with equal R_score and equal F_score have the
\* same segment, whatever their M_score.
C5_SegmentDependsOnRFOnly ==
  pc = "segmented" =>
     \A i, j \in DOMAIN rfm_data :
        SameRF(rfm_data[i], rfm_data[j]) => rfm_data[i].segment = rfm_data[j].segment

\* C5 amended: two customers with equal R_score and equal F_score have the same
\* segment unless R_score >= 4 and F_score >= 4; there the segment is Champions
\* for M_score >= 4 and Loyal Customers for M_score <= 3.
C5_SegmentDependsOnMForTopRF ==
  pc = "segmented" =>
     \A i, j \in DOMAIN rfm_data :
        LET a == rfm_data[i]
            b == rfm_data[j]
        IN /\ (SameRF(a, b) /\ ~(a.R_score >= 4 /\ a.F_score >= 4)) => a.segment = b.segment
           /\ (a.R_score >= 4 /\ a.F_score >= 4) =>
                a.segment = IF a.M_score >= 4 THEN "Champions" ELSE "Loyal Customers"

\* two customers with the same top R_score and F_score on either side of M_score 4
C5_Witness ==
  /\ pc = "segmented"
  /\ \E i, j \in DOMAIN rfm_data :
       /\ SameRF(rfm_data[i], rfm_data[j])
       /\ rfm_data[i].R_score >= 4 /\ rfm_data[i].F_score >= 4
       /\ rfm_data[i].M_score >= 4 /\ rfm_data[j].M_score <= 3
       /\ rfm_data[i].segment = "Champions" /\ rfm_data[j].segment = "Loyal Customers"

----------------------------------------------------------------------------
(* Properties of assign_rfm_scores, under SpecScore *)

\* assign_rfm_scores has set the score columns (and may have raised after that)
ScoresSet == pc \in {"scored", "segmented", "failed"}

Constant(col) == Cardinality(Column(rfm_data, col)) = 1
ColMin(col) == MinOf(Column(rfm_data, col))
ColMax(col) == MaxOf(Column(rfm_data, col))

\* the score column of a metric and the score of its k-th bin
ScoreColumn(col) ==
  CASE col = "recency" -> "R_score" [] col = "frequency" -> "F_score" [] col = "monetary" -> "M_score"
ScoreOfBin(col, k) == IF col = "recency" THEN 6 - k ELSE k

\* the bin of x among 5 bins of equal width over [mn, mx], mn < mx: bin k is
\* (mn + (k-1)w, mn + kw] with w = (mx - mn)/5, and mn itself is in bin 1
EqualWidthBin(x, mn, mx) ==
  CHOOSE k \in 1..5 :
    \/ x = mn /\ k = 1
    \/ (k - 1) * (mx - mn) < 5 * (x - mn) /\ 5 * (x - mn) <= k * (mx - mn)

\* C6: in a population where no metric is constant, every customer gets an
\* R_score, an F_score and an M_score in 1..5, and nothing is raised.
C6_ScoresInRange ==
  (ScoresSet /\ \A col \in Metrics : ~Constant(col)) =>
     /\ err = "none"
     /\ \A i \in DOMAIN rfm_data :
          {rfm_data[i].R_score, rfm_data[i].F_score, rfm_data[i].M_score} \subseteq 1..5

\* three customers, no metric constant, scored
C6_Witness ==
  /\ pc = "scored"
  /\ Len(rfm_data) = 3
  /\ \A col \in Metrics : Cardinality(Column(rfm_data, col)) = 3

\* C7: a customer whose value is in the k-th of the 5 equal-width bins of a
\* non-constant metric gets R_score 6 - k for recency and score k for frequency
\* and monetary; a smaller recency never gets a lower R_score, a larger
\* frequency or monetary never a lower F_score or M_score.
C7_BinToScore ==
  ScoresSet =>
     /\ \A col \in Metrics : ~Constant(col) =>
          \A i \in DOMAIN rfm_data :
             rfm_data[i][ScoreColumn(col)] =
               ScoreOfBin(col, EqualWidthBin(rfm_data[i][col], ColMin(col), ColMax(col)))
     /\ \A i, j \in DOMAIN rfm_data :
          /\ rfm_data[i].recency <= rfm_data[j].recency => rfm_data[i].R_score >= rfm_data[j].R_score
          /\ rfm_data[i].frequency <= rfm_data[j].frequency => rfm_data[i].F_score <= rfm_data[j].F_score
          /\ rfm_data[i].monetary <= rfm_data[j].monetary => rfm_data[i].M_score <= rfm_data[j].M_score

\* recencies in the first, the third and the fifth bin
C7_Witness ==
  /\ pc = "scored"
  /\ \E i, j, k \in DOMAIN rfm_data :
       /\ rfm_data[i].recency < rfm_data[j].recency /\ rfm_data[j].recency < rfm_data[k].recency
       /\ rfm_data[i].R_score = 5 /\ rfm_data[j].R_score = 3 /\ rfm_data[k].R_score = 1

\* x lies on the interior edge mn + j*(mx - mn)/5
OnEdge(x, j, mn, mx) == mn < mx /\ 5 * (x - mn) = j * (mx - mn)

\* C8: a value on the interior edge j (1..4) of a metric is in bin j, the
\* maximum is in bin 5 and the minimum is in bin 1.
C8_EdgeValues ==
  ScoresSet =>
     \A col \in Metrics : ~Constant(col) =>
        \A i \in DOMAIN rfm_data :
           LET x == rfm_data[i][col]
               score == rfm_data[i][ScoreColumn(col)]
           IN /\ \A j \in 1..4 : OnEdge(x, j, ColMin(col), ColMax(col)) => score = ScoreOfBin(col, j)
              /\ x = ColMax(col) => score = ScoreOfBin(col, 5)
              /\ x = ColMin(col) => score = ScoreOfBin(col, 1)

\* a frequency on the interior edge 2, next to the minimum and the maximum
C8_Witness ==
  /\ pc = "scored"
  /\ \E i \in DOMAIN rfm_data :
       /\ OnEdge(rfm_data[i].frequency, 2, ColMin("frequency"), ColMax("frequency"))
       /\ rfm_data[i].F_score = 2

\* C9: a metric that has the same value for every customer raises nothing and
\* gives every customer the score 3 for that metric.
C9_ConstantMetricScoresThree ==
  ScoresSet =>
     \A col \in Metrics : Constant(col) =>
        /\ err = "none"
        /\ \A i \in DOMAIN rfm_data : rfm_data[i][ScoreColumn(col)] = 3

\* a population of one customer, scored 3 on every metric
C9_Witness ==
  /\ pc = "scored"
  /\ Len(rfm_data) = 1
  /\ rfm_data[1].RFM_score = "333"

----------------------------------------------------------------------------
(* Properties of the reporting methods, under SpecReport *)

\* identify_top_customers has returned or raised
Reported == pc = "done" \/ (pc = "failed" /\ err = "ZeroDivisionError")

\* C11: on an empty profile set get_segment_summary returns an empty summary
\* and identify_top_customers raises no error and returns an empty selection
\* with contribution_pct = 0.
C11_EmptyProfilesGuarded ==
  (Reported /\ rfm_data = EmptyProfiles) =>
     /\ pc = "done"
     /\ segment_summary = <<>>
     /\ top_customers = <<>>
     /\ contribution_pct = Float(0, 1)

\* get_segment_summary has returned on a profile set of at least one customer
Summarised == pc \in {"summarised", "done"} /\ rfm_data # EmptyProfiles

CustomersOf(g) == {i \in DOMAIN rfm_data : rfm_data[i].segment = g}
SummaryRowsOf(g) == {k \in DOMAIN segment_summary : segment_summary[k].segment = g}

\* C12: the summary has exactly one row for every segment that occurs among
\* the profiles and no other row, and each row counts the customers of its own
\* segment only: the customers labelled Others have the Others row to themselves.
C12_OneRowPerSegment ==
  Summarised =>
     /\ \A i \in DOMAIN rfm_data : Cardinality(SummaryRowsOf(rfm_data[i].segment)) = 1
     /\ \A k \in DOMAIN segment_summary :
          /\ CustomersOf(segment_summary[k].segment) # {}
          /\ segment_summary[k].customer_count = Cardinality(CustomersOf(segment_summary[k].segment))

\* a summary of two segments or more, Others among them
C12_Witness ==
  /\ Summarised
  /\ Len(segment_summary) >= 2
  /\ SummaryRowsOf("Others") # {}

\* the sum of the revenue_pct column
RevenuePctSum == FloatSum([k \in DOMAIN segment_summary |-> segment_summary[k].revenue_pct])
TotalRevenue == SeqSum([i \in DOMAIN rfm_data |-> rfm_data[i].monetary])

\* x is r / t * 100 rounded to the nearest hundredth
IsPctOf(x, r, t) ==
  /\ ~x.nan
  /\ 100 % x.den = 0
  /\ 2 * Abs((x.num * (100 \div x.den)) * t - 10000 * r) <= t

\* C13: for a profile set of at least one customer, every revenue_pct is the
\* row's total_revenue over the sum of all total_revenue, times 100, rounded to
\* 2 decimals, and the revenue_pct values sum to 100 within 0.1.
C13_RevenuePctSumsTo100 ==
  Summarised =>
     /\ \A k \in DOMAIN segment_summary :
          IsPctOf(segment_summary[k].revenue_pct, segment_summary[k].total_revenue, TotalRevenue)
     /\ ~RevenuePctSum.nan
     /\ Abs(10 * RevenuePctSum.num - 1000 * RevenuePctSum.den) <= RevenuePctSum.den

\* for a profile set whose total revenue is not zero the percentages are
\* defined and sum to 100 within 0.1
RevenuePctWhenRevenue ==
  (Summarised /\ TotalRevenue > 0) =>
     /\ \A k \in DOMAIN segment_summary :
          IsPctOf(segment_summary[k].revenue_pct, segment_summary[k].total_revenue, TotalRevenue)
     /\ Abs(10 * RevenuePctSum.num - 1000 * RevenuePctSum.den) <= RevenuePctSum.den

\* C14: the rows of the summary are in descending order of total_revenue.
C14_DescendingRevenue ==
  Summarised =>
     \A j, k \in DOMAIN segment_summary :
        j < k => segment_summary[j].total_revenue >= segment_summary[k].total_revenue

SegmentPosition(g) == CHOOSE k \in DOMAIN SegmentOrder : SegmentOrder[k] = g

\* a summary whose first row has more revenue than its second and a later label
C14_Witness ==
  /\ Summarised
  /\ Len(segment_summary) >= 2
  /\ segment_summary[1].total_revenue > segment_summary[2].total_revenue
  /\ SegmentPosition(segment_summary[1].segment) > SegmentPosition(segment_summary[2].segment)

\* identify_top_customers has returned on a profile set of at least one customer
TopReturned == pc = "done" /\ rfm_data # EmptyProfiles

ReturnedIds == {top_customers[k].customer_id : k \in DOMAIN top_customers}
\* the place of a returned profile in the input profile set
InputPlace(row) == CHOOSE i \in DOMAIN rfm_data : rfm_data[i].customer_id = row.customer_id

\* C15: for n customers and a percentile p, identify_top_customers returns
\* exactly floor(n * p / 100) profiles in descending order of monetary, and no
\* profile left out has a larger monetary than a returned one.
C15_FloorOfPercentile ==
  TopReturned =>
     /\ Len(top_customers) = (Len(rfm_data) * percentile) \div 100
     /\ \A j, k \in DOMAIN top_customers :
          j < k => top_customers[j].monetary >= top_customers[k].monetary
     /\ \A k \in DOMAIN top_customers : \A i \in DOMAIN rfm_data :
          rfm_data[i].customer_id \notin ReturnedIds
             => top_customers[k].monetary >= rfm_data[i].monetary

\* the same, for the populations of at most MaxPop customers
TopCustomersOfSmallPopulation ==
  (TopReturned /\ Len(rfm_data) <= MaxPop) => C15_FloorOfPercentile

\* C16: profiles of equal monetary keep their input order in the selection,
\* and of the profiles tied at the cutoff the earlier ones in the input are
\* the ones selected.
C16_StableSort ==
  TopReturned =>
     /\ \A j, k \in DOMAIN top_customers :
          (j < k /\ top_customers[j].monetary = top_customers[k].monetary)
             => InputPlace(top_customers[j]) < InputPlace(top_customers[k])
     /\ \A k \in DOMAIN top_customers : \A i \in DOMAIN rfm_data :
          (rfm_data[i].customer_id \notin ReturnedIds
             /\ rfm_data[i].monetary = top_customers[k].monetary)
             => InputPlace(top_customers[k]) < i

\* C17: with p = 100 identify_top_customers returns every customer of a
\* profile set that is not empty, and contribution_pct = 100.
C17_AllCustomersAtP100 ==
  (TopReturned /\ percentile = 100) =>
     /\ Len(top_customers) = Len(rfm_data)
     /\ ReturnedIds = Column(rfm_data, "customer_id")
     /\ contribution_pct = Float(100, 1)

\* C18: when floor(n * p / 100) = 0 for a profile set that is not empty,
\* identify_top_customers raises no error and returns an empty selection with
\* contribution_pct = 0.
C18_EmptySelection ==
  (TopReturned /\ (Len(rfm_data) * percentile) \div 100 = 0) =>
     /\ err = "none"
     /\ top_customers = <<>>
     /\ contribution_pct = Float(0, 1)

\* for a profile set whose total revenue is not zero: the contribution is 100
\* when every customer is selected and 0 when none is
ContributionWhenRevenue ==
  (TopReturned /\ TotalRevenue > 0) =>
     /\ Len(top_customers) = Len(rfm_data) => contribution_pct = Float(100, 1)
     /\ top_customers = <<>> => contribution_pct = Float(0, 1)

----------------------------------------------------------------------------
(* Properties of the whole analysis run twice, under SpecRerun *)

\* C19: two runs of the whole pipeline on the same ledger, at any two
\* wall-clock times, yield identical profiles, summary and top customers.
C19_RerunIdentical ==
  (pc = "done" /\ previous.ran) => Outputs(TRUE) = previous

----------------------------------------------------------------------------
(* Frame effects, under SpecReport *)

\* C20: assign_rfm_scores, segment_customers and calculate_customer_value
\* leave the profile set passed to them as it was: after the call the passed
\* frame has the columns and values it had before the call.
C20_PassedFrameUnchanged ==
  [][(pc \in {"rfm", "scored", "segmented"} /\ pc' # pc) => arg_frame' = rfm_data]_vars

----------------------------------------------------------------------------
(* Properties of the menu, under SpecMenu *)

\* option 2 has called perform_rfm_analysis: the call returned, or raised
EngineInvoked ==
  /\ choice = 2
  /\ outcome = "done" \/ (pc = "crashed" /\ err # "FileNotFoundError")

\* C21: the RFM engine is never invoked on a ledger that lacks a required
\* field: such a ledger is rejected by validation before the call.
C21_ValidatedBeforeEngine ==
  EngineInvoked => data.columns

\* C25: no stale state across menu steps: the rfm_data the menu holds, which
\* options 3 to 7 consume, was derived from the ledger currently held in data,
\* also after option 1 regenerated the data or option 2 ran again.
C25_NoStaleResults ==
  (pc = "menu" /\ "rfm_data" \in held) =>
     \E now \in WallClock :
        perform_rfm_analysis(data, now) = [err |-> "none", rfm_data |-> rfm_data]

C27_SegmentationCompletes ==
  (choice = 3 /\ "rfm_data" \in held) =>
     /\ pc = "menu"
     /\ outcome = "done"
     /\ {"segment_summary", "top_customers"} \subseteq held
     /\ \A n \in {4, 5, 7} : ~Refuses(n)

\* C28: option 8, confirmed or declined, leaves data, rfm_data,
\* segment_summary, top_customers and db of the menu as they were; on a fresh
\* start, an option 3 to 7 chosen after option 8 is refused.
C28_CompleteAnalysisKeepsLocals ==
  [][/\ choice' = 8 =>
          UNCHANGED <<data, rfm_data, segment_summary, top_customers, held>>
     /\ (choice = 8 /\ held = {} /\ choice' \in 3..7) => outcome' = "refused"]_vars

\* option 8 ran to its end on a fresh start (only it sets the analysis date
\* and leaves every local None), and an option 3 to 7 was refused afterwards
C28_Witness ==
  /\ pc = "menu"
  /\ held = {}
  /\ analysis_date > 0
  /\ csv_file.exists
  /\ choice \in 3..7
  /\ outcome = "refused"

----------------------------------------------------------------------------
(* Properties of the pipeline of perform_rfm_analysis, under SpecRerun and Spec *)

\* the orders the rows of a ledger of n rows can come in
RowOrders(n) == Permutations(1..n)
Reordered(rows, p) == [i \in DOMAIN rows |-> rows[p[i]]]

\* C22: for every order of the rows of the ledger, the pipeline calculate_rfm,
\* assign_rfm_scores, segment_customers, calculate_customer_value yields for
\* every customer the recency, frequency, monetary, scores, segment and CLV it
\* yielded for the ledger as given.
C22_RowOrderIrrelevant ==
  pc = "valued" =>
     \A p \in RowOrders(Len(ledger.rows)) :
        perform_rfm_analysis(Frame(Reordered(ledger.rows, p)), analysis_date)
           = [err |-> "none", rfm_data |-> rfm_data]

\* a ledger in which a customer's later purchase comes before an earlier one
C22_Witness ==
  /\ pc = "valued"
  /\ Len(ledger.rows) >= 2
  /\ ledger.rows[1].customer_id = ledger.rows[2].customer_id
  /\ ledger.rows[1].date > ledger.rows[2].date
  /\ ledger.rows[1].amount # ledger.rows[2].amount

\* C23: every profile has frequency >= 1, its CLV is a number (no division by
\* zero), and CLV = (monetary / frequency) * (frequency * 0.5).
C23_ClvDefined ==
  pc = "valued" =>
     \A k \in DOMAIN rfm_data :
        /\ rfm_data[k].frequency >= 1
        /\ ~rfm_data[k].CLV.nan
        /\ 2 * rfm_data[k].frequency * rfm_data[k].CLV.num
             = rfm_data[k].monetary * rfm_data[k].frequency * rfm_data[k].CLV.den

\* two customers of different frequency, one of them with an odd monetary
C23_Witness ==
  /\ pc = "valued"
  /\ Len(rfm_data) = 2
  /\ rfm_data[1].frequency # rfm_data[2].frequency
  /\ \E k \in DOMAIN rfm_data : rfm_data[k].monetary % 2 = 1 /\ rfm_data[k].CLV.den = 2

----------------------------------------------------------------------------
(* The three-customer example, under SpecReport *)

\* the profile set of the run is the one of the three-customer ledger
ThreeCustomerRun ==
  /\ Len(rfm_data) = 3
  /\ rfm_data[1].monetary = 50000
  /\ rfm_data[2].recency = 400
  /\ rfm_data[3].recency = 45

\* the row of segment_summary for the segment g
SummaryRowOf(g) ==
  CHOOSE k \in DOMAIN segment_summary : segment_summary[k].segment = g

\* C24: on the three-customer ledger (A: 5 purchases totalling 50000, the
\* latest within the last 10 days; B: 1 purchase of 500, 400 days ago; C: 2
\* purchases totalling 3000, the latest 45 days ago) A is a Champion or a
\* Loyal Customer, B is Lost, and the summary row of A's segment has a
\* revenue_pct above 90.
C24_ThreeCustomerExample ==
  ThreeCustomerRun =>
     /\ pc \in {"segmented", "valued", "summarised", "done"} =>
          /\ rfm_data[1].segment \in {"Champions", "Loyal Customers"}
          /\ rfm_data[2].segment = "Lost"
     /\ pc \in {"summarised", "done"} =>
          /\ \E k \in DOMAIN segment_summary : segment_summary[k].segment = rfm_data[1].segment
          /\ LET pct == segment_summary[SummaryRowOf(rfm_data[1].segment)].revenue_pct
             IN ~pct.nan /\ pct.num > 90 * pct.den
     /\ pc # "failed"

\* the example was summarised: A's segment earns 93.46 % of the revenue
C24_Witness ==
  /\ ThreeCustomerRun
  /\ pc = "summarised"
  /\ rfm_data[1].recency = 10
  /\ rfm_data[1].segment = "Champions"
  /\ segment_summary[1].revenue_pct = Float(9346, 100)

----------------------------------------------------------------------------
(* The segment of every score triple and the extreme scores, under SpecScore *)

ScoreTriples == [R_score : 1..NumBins, F_score : 1..NumBins, M_score : 1..NumBins]

\* C29: for scores in 1..5, the segment is Others exactly when R_score = 3
\* and F_score <= 2; every other triple gets one of the five named segments,
\* and each of the six segments is the segment of at least one triple.
C29_OthersExactlyForR3LowF ==
  pc = "segmented" =>
     /\ \A i \in DOMAIN rfm_data :
          /\ rfm_data[i].segment = "Others" <=>
               (rfm_data[i].R_score = 3 /\ rfm_data[i].F_score <= 2)
          /\ rfm_data[i].segment \in NamedSegments \cup {"Others"}
     /\ \A t \in ScoreTriples :
          /\ get_segment(t) = "Others" <=> (t.R_score = 3 /\ t.F_score <= 2)
          /\ get_segment(t) # "Others" => get_segment(t) \in NamedSegments
     /\ \A g \in NamedSegments \cup {"Others"} : \E t \in ScoreTriples : get_segment(t) = g

\* a population with an Others customer and a customer of a named segment
C29_Witness ==
  /\ pc = "segmented"
  /\ \E i \in DOMAIN rfm_data :
       /\ rfm_data[i].R_score = 3
       /\ rfm_data[i].F_score <= 2
       /\ rfm_data[i].segment = "Others"
  /\ \E i \in DOMAIN rfm_data : rfm_data[i].segment \in NamedSegments

\* the scores of the customers whose value in the column col is v
ScoresAt(col, score, v) ==
  {rfm_data[i][score] : i \in {j \in DOMAIN rfm_data : rfm_data[j][col] = v}}

NonConstant(col) == Cardinality(Column(rfm_data, col)) > 1

\* C30: when a metric is not constant over the population, the customers of
\* minimum recency score R 5 and those of maximum recency R 1, the customers
\* of maximum frequency (monetary) score F (M) 5 and those of the minimum 1;
\* the scores 2, 3, 4 may go to nobody.
C30_ExtremeScoresUsed ==
  pc = "scored" =>
     /\ NonConstant("recency") =>
          /\ ScoresAt("recency", "R_score", MinOf(Column(rfm_data, "recency"))) = {5}
          /\ ScoresAt("recency", "R_score", MaxOf(Column(rfm_data, "recency"))) = {1}
     /\ NonConstant("frequency") =>
          /\ ScoresAt("frequency", "F_score", MaxOf(Column(rfm_data, "frequency"))) = {5}
          /\ ScoresAt("frequency", "F_score", MinOf(Column(rfm_data, "frequency"))) = {1}
     /\ NonConstant("monetary") =>
          /\ ScoresAt("monetary", "M_score", MaxOf(Column(rfm_data, "monetary"))) = {5}
          /\ ScoresAt("monetary", "M_score", MinOf(Column(rfm_data, "monetary"))) = {1}

\* three customers, no metric constant, and nobody scores 2, 3 or 4 in any
\* of them
C30_Witness ==
  /\ pc = "scored"
  /\ Len(rfm_data) = 3
  /\ \A col \in Metrics : NonConstant(col)
  /\ \A i \in DOMAIN rfm_data :
       {rfm_data[i].R_score, rfm_data[i].F_score, rfm_data[i].M_score} \subseteq {1, 5}

====
